---- MODULE Spec2Model ----
(***************************************************************************)
(* A model of the todo application of src/: the markup helpers and the     *)
(* EventEmitter / TodoItemModel / TodoListModel of src/src/view/html-util.js, *)
(* the TodoItemView / TodoListView of src/unnamed/part_000 and the App      *)
(* controller of src/src/app.js.                                            *)
(*                                                                         *)
(* JavaScript strings are sequences of one-character strings; the static    *)
(* chunks of a template literal are single tokens of such a sequence.       *)
(* Objects live in heaps: objs holds the TodoItemModel instances in         *)
(* creation order, arrays holds the Array instances that have been #items.  *)
(***************************************************************************)
EXTENDS Integers, Sequences, FiniteSets, TLC

VARIABLES
    todoIdx,        \* html-util.js:233  module-level id counter
    objs,           \* heap of TodoItemModel objects, index = object reference
    arrays,         \* heap of Array objects: reference -> sequence of object references
    itemsRef,       \* TodoListModel.#items: the reference it currently holds
    heldRef,        \* array reference held by code outside the TodoListModel (0: none)
    listeners,      \* EventEmitter.#listeners: type -> insertion-ordered Set of listeners
    formListeners,  \* listeners attached to formElement for "submit"
    inputValue,     \* formInputElement.value
    dom,            \* children of todoListContainerElement
    countText,      \* todoCountElement.textContent
    lastOp,         \* history: the operation the last step performed, with its arguments
    fired,          \* history: how often the last step invoked each listener
    log,            \* history: what the last step did, in the order it did it
    hung,           \* a call never returned: the page no longer reacts
    escIn,          \* value handed to the element template tag
    escOut          \* markup string the element template tag built from escIn

vars == <<todoIdx, objs, arrays, itemsRef, heldRef, listeners, formListeners,
          inputValue, dom, countText, lastOp, fired, log, hung, escIn, escOut>>

appVars == <<todoIdx, objs, arrays, itemsRef, heldRef, listeners, formListeners,
             inputValue, dom, countText, lastOp, fired, log, hung>>

escVars == <<escIn, escOut>>

----------------------------------------------------------------------------
(* Bounds of the model.                                                    *)

\* longest string handed to escapeSpecialChars
MaxLen == 3

\* number of TodoItemModel objects constructed in one behaviour
MaxTodos == 3

\* number of listeners registered under one type by calls of addEventListener
MaxListeners == 3

----------------------------------------------------------------------------
(* Strings.                                                                *)

Range(s) == {s[i] : i \in DOMAIN s}

RECURSIVE Flatten(_)
Flatten(ss) == IF ss = <<>> THEN <<>> ELSE Head(ss) \o Flatten(Tail(ss))

SpecialChars == {"&", "<", ">", "\"", "'"}

\* the characters titles are drawn from: the five special ones, a letter, and
\* the two characters that occur inside entities
Alphabet == SpecialChars \cup {"a", ";"}

RECURSIVE StringsUpTo(_)
StringsUpTo(n) ==
    IF n = 0 THEN {<<>>}
    ELSE LET shorter == StringsUpTo(n - 1)
         IN  shorter \cup {Append(s, c) : s \in {t \in shorter : Len(t) = n - 1}, c \in Alphabet}

\* String.prototype.replace(/c/g, rep) for a one-character pattern: every
\* occurrence of c, left to right, becomes rep; the replacement is not rescanned
RECURSIVE ReplaceAll(_, _, _)
ReplaceAll(str, c, rep) ==
    IF str = <<>> THEN <<>>
    ELSE (IF Head(str) = c THEN rep ELSE <<Head(str)>>) \o ReplaceAll(Tail(str), c, rep)

escapeSpecialCharsAmpLast(str) ==
    ReplaceAll(
        ReplaceAll(
            ReplaceAll(
                ReplaceAll(
                    ReplaceAll(str, "<", <<"&", "l", "t", ";">>),
                    ">", <<"&", "g", "t", ";">>),
                "\"", <<"&", "q", "u", "o", "t", ";">>),
            "'", <<"&", "#", "0", "3", "9", ";">>),
        "&", <<"&", "a", "m", "p", ";">>)

escapeSpecialChars(str) ==
    ReplaceAll(
        ReplaceAll(
            ReplaceAll(
                ReplaceAll(
                    ReplaceAll(str, "&", <<"&", "a", "m", "p", ";">>),
                    "<", <<"&", "l", "t", ";">>),
                ">", <<"&", "g", "t", ";">>),
            "\"", <<"&", "q", "u", "o", "t", ";">>),
        "'", <<"&", "#", "0", "3", "9", ";">>)

\* A JavaScript value handed to a template: its typeof and its String(value)
StringValue(s) == [type |-> "string", str |-> s]

\* element`...`: strings.reduce without an initial value starts from strings[0]
\* and appends, for i >= 1, the (escaped) values[i-1] and then strings[i]
RECURSIVE elementReduce(_, _, _, _)
elementReduce(result, strings, values, i) ==
    IF i > Len(strings) THEN result
    ELSE LET value == values[i - 1]
             next  == IF value.type = "string"
                      THEN result \o escapeSpecialChars(value.str) \o strings[i]
                      ELSE result \o value.str \o strings[i]
         IN  elementReduce(next, strings, values, i + 1)

\* the markup string element() hands to htmlToElement
element(strings, values) == elementReduce(strings[1], strings, values, 2)

----------------------------------------------------------------------------
(* The templates of TodoItemView.createElement and TodoListView.createElement *)

LiCheckedOpen == <<"<li><input type=\"checkbox\" class=\"checkbox\" checked> <s>">>
LiCheckedClose == <<"</s> <button class=\"delete\">x</button> </li>">>
LiOpen == <<"<li><input type=\"checkbox\" class=\"checkbox\"> ">>
LiClose == <<" <button class=\"delete\">x</button> </li>">>

----------------------------------------------------------------------------
(* The program state as one record, so that a handler and everything it    *)
(* calls is a function from state to state.                                *)

\* the functions registered as listeners: App.#handleChange; a subscriber of
\* its own that the code around a TodoListModel registers; and four that call
\* back into the EventEmitter that is calling them:
\*   once     function () { this.removeEventListener("change", once) }
\*   remover  function () { this.removeEventListener("change", subscriber) }
\*   adder    function () { this.addEventListener("change", subscriber) }
\*   again    function () { this.removeEventListener("change", again);
\*                           this.addEventListener("change", again) }
Listeners == {"handleChange", "subscriber", "once", "remover", "adder", "again"}

\* the listeners that leave the registrations alone
PlainListeners == {"handleChange", "subscriber"}

\* a deleted entry of a Set: the slot stays, emptied, while the Set is iterated
Empty == "~empty~"

ArrayRefs == 1..3

NoFired == [l \in Listeners |-> 0]

World ==
    [todoIdx |-> todoIdx, objs |-> objs, arrays |-> arrays, itemsRef |-> itemsRef,
     heldRef |-> heldRef, listeners |-> listeners, formListeners |-> formListeners,
     inputValue |-> inputValue, dom |-> dom, countText |-> countText,
     fired |-> NoFired, log |-> <<>>, hung |-> hung]

\* the entries of every listener Set, the emptied slots dropped
Compact(ls) == [t \in DOMAIN ls |-> SelectSeq(ls[t], LAMBDA l : l # Empty)]

\* the state a handler leaves behind; no Set is being iterated any more
Commit(w) ==
    /\ todoIdx' = w.todoIdx
    /\ objs' = w.objs
    /\ arrays' = w.arrays
    /\ itemsRef' = w.itemsRef
    /\ heldRef' = w.heldRef
    /\ listeners' = Compact(w.listeners)
    /\ formListeners' = w.formListeners
    /\ inputValue' = w.inputValue
    /\ dom' = w.dom
    /\ countText' = w.countText
    /\ fired' = w.fired
    /\ log' = w.log
    /\ hung' = w.hung

Log(w, event) == [w EXCEPT !.log = Append(@, event)]

\* an Array that nothing references any more is collected
Collect(w) ==
    [w EXCEPT !.arrays = [r \in ArrayRefs |->
        IF r \in {w.itemsRef, w.heldRef} THEN w.arrays[r] ELSE <<>>]]

FreshArrayRef(w) == CHOOSE r \in ArrayRefs : r \notin {w.itemsRef, w.heldRef}

----------------------------------------------------------------------------
(* TodoItemView / TodoListView / render                                    *)

\* the <li> built for one TodoItemModel: its markup, and the object its two
\* listeners close over (they read todoItem.id and todoItem.completed when
\* the event arrives, not when the element is built)
TodoItemViewCreateElement(w, todoItem) ==
    [item |-> todoItem,
     html |-> IF w.objs[todoItem].completed
              THEN element(<<LiCheckedOpen, LiCheckedClose>>,
                           <<StringValue(w.objs[todoItem].title)>>)
              ELSE element(<<LiOpen, LiClose>>,
                           <<StringValue(w.objs[todoItem].title)>>)]

\* the <ul>: one child per item, in the order of todoItems
TodoListViewCreateElement(w, todoItems) ==
    [tag |-> "ul",
     children |-> [i \in DOMAIN todoItems |-> TodoItemViewCreateElement(w, todoItems[i])]]

renderAccumulate(bodyElement, containerChildren) == Append(containerChildren, bodyElement)

\* the children of containerElement after render(bodyElement, containerElement)
render(bodyElement, containerChildren) == Append(<<>>, bodyElement)

----------------------------------------------------------------------------
(* EventEmitter                                                            *)

addEventListenerArray(w, type, listener) ==
    LET had == IF type \in DOMAIN w.listeners THEN w.listeners[type] ELSE <<>>
    IN  [w EXCEPT !.listeners =
            [t \in DOMAIN w.listeners \cup {type} |->
                IF t = type THEN Append(had, listener) ELSE w.listeners[t]]]

addEventListener(w, type, listener) ==
    LET had == IF type \in DOMAIN w.listeners THEN w.listeners[type] ELSE <<>>
        now == IF listener \in Range(had) THEN had ELSE Append(had, listener)
    IN  [w EXCEPT !.listeners =
            [t \in DOMAIN w.listeners \cup {type} |-> IF t = type THEN now ELSE w.listeners[t]]]

removeEventListenerClear(w, type, listener) ==
    IF type \notin DOMAIN w.listeners THEN w
    ELSE [w EXCEPT !.listeners[type] =
            [i \in DOMAIN @ |-> IF listener \in Range(@) THEN Empty ELSE @[i]]]

\* Set.prototype.delete empties the slot of the entry; the slots after it
\* keep their places for a forEach that is under way
removeEventListener(w, type, listener) ==
    IF type \notin DOMAIN w.listeners THEN w
    ELSE [w EXCEPT !.listeners[type] =
            [i \in DOMAIN @ |-> IF @[i] = listener THEN Empty ELSE @[i]]]

getTotalCount(w) == Len(w.arrays[w.itemsRef])

getTodoItems(w) == w.itemsRef

\* the label of the count text; the source writes it in Japanese ("number of
\* Todo items"), which is kept here as one token
CountLabel == "Todo items"

handleChange(w) ==
    LET todoItems == w.arrays[getTodoItems(w)]
        todoListElement == TodoListViewCreateElement(w, todoItems)
    IN  [w EXCEPT !.dom = render(todoListElement, w.dom),
                  !.countText = [label |-> CountLabel, count |-> getTotalCount(w)]]

\* listener.call(this)
Invoke(w, listener) ==
    LET counted == Log([w EXCEPT !.fired[listener] = @ + 1], listener)
    IN  CASE listener = "handleChange" -> handleChange(counted)
          [] listener = "once" -> removeEventListener(counted, "change", "once")
          [] listener = "remover" -> removeEventListener(counted, "change", "subscriber")
          [] listener = "adder" -> addEventListener(counted, "change", "subscriber")
          [] listener = "again" ->
                addEventListener(removeEventListener(counted, "change", "again"),
                                 "change", "again")
          [] OTHER -> counted

\* where a forEach over the Set of type stands when it is about to read slot
\* i: the entries before the slot, the entries from it on, and the rest of the
\* state the listeners read and write
IterationState(w, type, i) ==
    <<SelectSeq(SubSeq(w.listeners[type], 1, i - 1), LAMBDA l : l # Empty),
      SelectSeq(SubSeq(w.listeners[type], i, Len(w.listeners[type])), LAMBDA l : l # Empty),
      [w EXCEPT !.listeners = Compact(@), !.fired = NoFired, !.log = <<>>]>>

\* listenerSet.forEach: the slots are read in order, one by one, up to the
\* length the Set has when each is read; entries appended meanwhile are
\* reached, emptied slots are passed over. A forEach that stands where it
\* stood before repeats itself for ever: emit does not return.
RECURSIVE emitForEach(_, _, _, _)
emitForEach(w, type, i, seen) ==
    IF i > Len(w.listeners[type]) THEN w
    ELSE IF w.listeners[type][i] = Empty THEN emitForEach(w, type, i + 1, seen)
    ELSE IF IterationState(w, type, i) \in seen THEN [w EXCEPT !.hung = TRUE]
    ELSE emitForEach(Invoke(w, w.listeners[type][i]), type, i + 1,
                     seen \cup {IterationState(w, type, i)})

emit(w, type) ==
    IF type \notin DOMAIN w.listeners THEN w ELSE emitForEach(w, type, 1, {})

----------------------------------------------------------------------------
(* TodoItemModel                                                           *)

\* the id taken from the number of items held instead of from the counter
TodoItemModelIdFromLength(w, title, completed) ==
    [w EXCEPT !.objs = Append(@, [id |-> Len(w.arrays[w.itemsRef]), title |-> title,
                                   completed |-> completed]),
              !.todoIdx = @ + 1]

\* the counter read but not advanced
TodoItemModelNoIncrement(w, title, completed) ==
    [w EXCEPT !.objs = Append(@, [id |-> w.todoIdx, title |-> title, completed |-> completed])]

\* the counter advanced only for an item that a TodoListModel will accept
TodoItemModelCountAccepted(w, title, completed) ==
    [w EXCEPT !.objs = Append(@, [id |-> w.todoIdx, title |-> title, completed |-> completed]),
              !.todoIdx = IF title = <<>> THEN @ ELSE @ + 1]

\* new TodoItemModel({ title, completed }): this.id = todoIdx++
TodoItemModel(w, title, completed) ==
    [w EXCEPT !.objs = Append(@, [id |-> w.todoIdx, title |-> title, completed |-> completed]),
              !.todoIdx = @ + 1]

\* the reference of the object the constructor just returned
Newest(w) == Len(w.objs)

isEmptyTitle(todoItem) == Len(todoItem.title) = 0

----------------------------------------------------------------------------
(* TodoListModel                                                           *)

onChange(w, listener) == addEventListener(w, "change", listener)

offChange(w, listener) == removeEventListener(w, "change", listener)

emitChange(w) == emit(w, "change")

\* the empty-title check left out
addTodoNoCheck(w, todoItem) ==
    emitChange([w EXCEPT !.arrays[w.itemsRef] = Append(@, todoItem)])

addTodo(w, todoItem) ==
    IF isEmptyTitle(w.objs[todoItem]) THEN w
    ELSE emitChange([w EXCEPT !.arrays[w.itemsRef] = Append(@, todoItem)])

\* Array.prototype.find: the first element the predicate accepts, 0 for undefined
Find(w, id) ==
    LET items == w.arrays[w.itemsRef]
        hits  == {i \in DOMAIN items : w.objs[items[i]].id = id}
    IN  IF hits = {} THEN 0 ELSE items[CHOOSE i \in hits : \A j \in hits : i <= j]

\* the notification sent whether or not an item was found
updateTodoAlwaysEmit(w, id, completed) ==
    LET todoItem == Find(w, id)
    IN  IF todoItem = 0 THEN emitChange(w)
        ELSE emitChange([w EXCEPT !.objs[todoItem].completed = completed])

\* the flag flipped instead of set to the value given
updateTodoToggle(w, id, completed) ==
    LET todoItem == Find(w, id)
    IN  IF todoItem = 0 THEN w
        ELSE emitChange([w EXCEPT !.objs[todoItem].completed = ~@])

updateTodo(w, id, completed) ==
    LET todoItem == Find(w, id)
    IN  IF todoItem = 0 THEN w
        ELSE emitChange([w EXCEPT !.objs[todoItem].completed = completed])

\* the filter predicate inverted: === for !==
deleteTodoKeepMatching(w, id) ==
    LET kept  == SelectSeq(w.arrays[w.itemsRef], LAMBDA todo : w.objs[todo].id = id)
        fresh == FreshArrayRef(w)
    IN  emitChange(Collect([w EXCEPT !.arrays[fresh] = kept, !.itemsRef = fresh]))

\* the notification sent only when the filter removed something
deleteTodoNotifyIfRemoved(w, id) ==
    LET kept  == SelectSeq(w.arrays[w.itemsRef], LAMBDA todo : w.objs[todo].id # id)
        fresh == FreshArrayRef(w)
        after == Collect([w EXCEPT !.arrays[fresh] = kept, !.itemsRef = fresh])
    IN  IF Len(kept) = Len(w.arrays[w.itemsRef]) THEN after ELSE emitChange(after)

\* the id taken for a position: this.#items.splice(id, 1)
deleteTodoByPosition(w, id) ==
    LET had   == w.arrays[w.itemsRef]
        kept  == SelectSeq([i \in DOMAIN had |-> IF i = id + 1 THEN 0 ELSE had[i]],
                           LAMBDA todo : todo # 0)
        fresh == FreshArrayRef(w)
    IN  emitChange(Collect([w EXCEPT !.arrays[fresh] = kept, !.itemsRef = fresh]))

\* Array.prototype.filter builds a new Array; #items is pointed at it
deleteTodo(w, id) ==
    LET kept  == SelectSeq(w.arrays[w.itemsRef], LAMBDA todo : w.objs[todo].id # id)
        fresh == FreshArrayRef(w)
    IN  emitChange(Collect([w EXCEPT !.arrays[fresh] = kept, !.itemsRef = fresh]))

----------------------------------------------------------------------------
(* App                                                                     *)

handleAdd(w, title) ==
    LET constructed == TodoItemModel(w, title, FALSE)
    IN  addTodo(constructed, Newest(constructed))

handleUpdate(w, id, completed) == updateTodo(w, id, completed)

handleDelete(w, id) == deleteTodo(w, id)

\* the "change" listener TodoItemView attaches to the checkbox of li
checkboxChange(w, li) == handleUpdate(w, w.objs[li.item].id, ~w.objs[li.item].completed)

\* the "click" listener TodoItemView attaches to the delete button of li
deleteClick(w, li) == handleDelete(w, w.objs[li.item].id)

handleSubmitClearFirst(w) ==
    LET prevented == Log(w, "preventDefault")
        cleared == Log([prevented EXCEPT !.inputValue = <<>>], "clear")
        read == Log(cleared, "read")
    IN  handleAdd(Log(read, "handleAdd"), read.inputValue)

\* the log has the four statements in the order they are executed, and
\* between "handleAdd" and "clear" what #handleAdd invoked
handleSubmit(w) ==
    LET prevented == Log(w, "preventDefault")
        read == Log(prevented, "read")
        added == handleAdd(Log(read, "handleAdd"), read.inputValue)
    IN  Log([added EXCEPT !.inputValue = <<>>], "clear")

unmountFormOnly(w) ==
    [w EXCEPT !.formListeners = @ \ {"handleSubmit"}]

mountAppending(w) ==
    [addEventListenerArray(w, "change", "handleChange")
        EXCEPT !.formListeners = @ \cup {"handleSubmit"}]

\* formElement.addEventListener keeps one registration of the same function
mount(w) ==
    [onChange(w, "handleChange") EXCEPT !.formListeners = @ \cup {"handleSubmit"}]

unmount(w) ==
    [offChange(w, "handleChange") EXCEPT !.formListeners = @ \ {"handleSubmit"}]

----------------------------------------------------------------------------
(* Initial state: the App constructed around an empty form and an empty     *)
(* container element, no TodoItemModel constructed yet.                     *)

\* no call of an EventEmitter method that is remembered came just before
NoPrevious == [op |-> "none", listener |-> "", handled |-> FALSE]

NoOp ==
    [op |-> "none", id |-> -1, completed |-> FALSE, title |-> <<>>, handled |-> FALSE,
     type |-> "", listener |-> "", previous |-> NoPrevious]

\* a step of the page or a call of a TodoListModel method
Op(name, id, completed, title, handled) ==
    [op |-> name, id |-> id, completed |-> completed, title |-> title, handled |-> handled,
     type |-> "", listener |-> "", previous |-> NoPrevious]

\* a call of an EventEmitter method. handled: the call changed the
\* registrations (emit: it did not return). previous, of an emit or a
\* removeEventListener: the call that came just before it, if that was for
\* the same type and was an addEventListener of a listener registered
\* already or a removeEventListener of a registered listener.
EmitterOp(name, type, listener, handled) ==
    [op |-> name, id |-> -1, completed |-> FALSE, title |-> <<>>, handled |-> handled,
     type |-> type, listener |-> listener,
     previous |-> IF /\ name # "addEventListener"
                     /\ lastOp.type = type
                     /\ \/ lastOp.op = "addEventListener" /\ ~lastOp.handled
                        \/ lastOp.op = "removeEventListener" /\ lastOp.handled
                  THEN [op |-> lastOp.op, listener |-> lastOp.listener, handled |-> lastOp.handled]
                  ELSE NoPrevious]

NoText == [label |-> "", count |-> -1]

NoOutput == <<"none">>

InitApp ==
    /\ todoIdx = 0
    /\ objs = <<>>
    /\ arrays = [r \in ArrayRefs |-> <<>>]
    /\ itemsRef = 1
    /\ heldRef = 0
    /\ listeners = <<>>
    /\ formListeners = {}
    /\ inputValue = <<>>
    /\ dom = <<>>
    /\ countText = NoText
    /\ lastOp = NoOp
    /\ fired = NoFired
    /\ log = <<>>
    /\ hung = FALSE

Init ==
    /\ InitApp
    /\ escIn = StringValue(<<>>)
    /\ escOut = NoOutput

\* the titles a user types
Titles == {<<>>, <<"<", "&">>}

----------------------------------------------------------------------------
(* Spec: the mounted page. Steps are the calls of mount and unmount and the *)
(* events a user can cause: typing, submitting the form, toggling a rendered *)
(* checkbox, clicking a rendered delete button.                             *)

\* lastOp.handled of mount and unmount: the call changed a registration
Mount ==
    /\ Commit(mount(World))
    /\ lastOp' = Op("mount", -1, FALSE, <<>>, mount(World) # World)
    /\ UNCHANGED escVars

Unmount ==
    /\ Commit(unmount(World))
    /\ lastOp' = Op("unmount", -1, FALSE, <<>>, Compact(unmount(World).listeners) # listeners
                                                  \/ unmount(World).formListeners # formListeners)
    /\ UNCHANGED escVars

TypeInput(title) ==
    /\ inputValue # title
    /\ Commit([World EXCEPT !.inputValue = title])
    /\ lastOp' = Op("input", -1, FALSE, title, TRUE)
    /\ UNCHANGED escVars

\* a submit event on formElement: #handleSubmit runs if it is attached
Submit ==
    /\ Len(objs) < MaxTodos
    /\ IF "handleSubmit" \in formListeners
       THEN Commit(handleSubmit(World))
       ELSE Commit(World)
    /\ lastOp' = Op("submit", -1, FALSE, inputValue, "handleSubmit" \in formListeners)
    /\ UNCHANGED escVars

\* the <li> elements now in the container element
Rendered == IF dom = <<>> THEN <<>> ELSE dom[1].children

Toggle(i) ==
    /\ Commit(checkboxChange(World, Rendered[i]))
    /\ lastOp' = Op("toggle", objs[Rendered[i].item].id, ~objs[Rendered[i].item].completed,
                    <<>>, TRUE)
    /\ UNCHANGED escVars

DeleteClick(i) ==
    /\ Commit(deleteClick(World, Rendered[i]))
    /\ lastOp' = Op("deleteClick", objs[Rendered[i].item].id, FALSE, <<>>, TRUE)
    /\ UNCHANGED escVars

Next ==
    \/ Mount
    \/ Unmount
    \/ \E title \in Titles : TypeInput(title)
    \/ Submit
    \/ \E i \in DOMAIN Rendered : Toggle(i)
    \/ \E i \in DOMAIN Rendered : DeleteClick(i)

Spec == Init /\ [][Next]_vars

----------------------------------------------------------------------------
(* SpecModel: the TodoListModel driven through its public methods, with the *)
(* arguments drawn from small sets. An item to add is constructed as        *)
(* App.#handleAdd constructs it.                                            *)

\* ids a caller may name: those assigned so far and one never assigned
Ids == 0..MaxTodos

CallOnChange(listener) ==
    /\ Commit(onChange(World, listener))
    /\ lastOp' = Op("onChange", -1, FALSE, <<>>, TRUE)
    /\ UNCHANGED escVars

CallOffChange(listener) ==
    /\ Commit(offChange(World, listener))
    /\ lastOp' = Op("offChange", -1, FALSE, <<>>, TRUE)
    /\ UNCHANGED escVars

CallAddTodo(title) ==
    /\ Len(objs) < MaxTodos
    /\ Commit(handleAdd(World, title))
    /\ lastOp' = Op("addTodo", todoIdx, FALSE, title, TRUE)
    /\ UNCHANGED escVars

\* a call of updateTodo or deleteTodo. previous: the call that came just
\* before it, if that was the same method with the same arguments.
ModelOp(name, id, completed) ==
    [Op(name, id, completed, <<>>, TRUE) EXCEPT !.previous =
        IF lastOp.op = name /\ lastOp.id = id /\ lastOp.completed = completed
        THEN [op |-> name, listener |-> "", handled |-> TRUE]
        ELSE NoPrevious]

CallUpdateTodo(id, completed) ==
    /\ Commit(updateTodo(World, id, completed))
    /\ lastOp' = ModelOp("updateTodo", id, completed)
    /\ UNCHANGED escVars

CallDeleteTodo(id) ==
    /\ Commit(deleteTodo(World, id))
    /\ lastOp' = ModelOp("deleteTodo", id, FALSE)
    /\ UNCHANGED escVars

NextModel ==
    \/ CallOnChange("subscriber")
    \/ CallOffChange("subscriber")
    \/ \E title \in Titles : CallAddTodo(title)
    \/ \E id \in Ids, completed \in BOOLEAN : CallUpdateTodo(id, completed)
    \/ \E id \in Ids : CallDeleteTodo(id)

SpecModel == Init /\ [][NextModel]_vars

----------------------------------------------------------------------------
(* SpecCaller: the three mutating methods together with the code around    *)
(* the TodoListModel: it passed an Array to the constructor and still holds *)
(* it, it can call getTodoItems, and it can use the Array methods on what   *)
(* it holds. No listener is registered.                                     *)

InitCaller ==
    /\ todoIdx = 0
    /\ objs = <<>>
    /\ arrays = [r \in ArrayRefs |-> <<>>]
    /\ itemsRef = 1
    /\ heldRef = 1
    /\ listeners = <<>>
    /\ formListeners = {}
    /\ inputValue = <<>>
    /\ dom = <<>>
    /\ countText = NoText
    /\ lastOp = NoOp
    /\ fired = NoFired
    /\ log = <<>>
    /\ hung = FALSE
    /\ escIn = StringValue(<<>>)
    /\ escOut = NoOutput

CallGetTodoItems ==
    /\ heldRef # getTodoItems(World)
    /\ Commit(Collect([World EXCEPT !.heldRef = getTodoItems(World)]))
    /\ lastOp' = Op("getTodoItems", -1, FALSE, <<>>, TRUE)
    /\ UNCHANGED escVars

\* held.push(new TodoItemModel({ title, completed: false })) by the code that
\* holds the Array
HeldPush(title) ==
    /\ heldRef # 0
    /\ Len(objs) < MaxTodos
    /\ LET constructed == TodoItemModel(World, title, FALSE)
       IN  Commit([constructed EXCEPT !.arrays[heldRef] = Append(@, Newest(constructed))])
    /\ lastOp' = Op("held.push", todoIdx, FALSE, title, TRUE)
    /\ UNCHANGED escVars

\* held.pop() by the code that holds the Array
HeldPop ==
    /\ heldRef # 0
    /\ arrays[heldRef] # <<>>
    /\ Commit([World EXCEPT !.arrays[heldRef] = SubSeq(@, 1, Len(@) - 1)])
    /\ lastOp' = Op("held.pop", -1, FALSE, <<>>, TRUE)
    /\ UNCHANGED escVars

NextCaller ==
    \/ \E title \in Titles : CallAddTodo(title)
    \/ \E id \in Ids, completed \in BOOLEAN : CallUpdateTodo(id, completed)
    \/ \E id \in Ids : CallDeleteTodo(id)
    \/ CallGetTodoItems
    \/ \E title \in Titles : HeldPush(title)
    \/ HeldPop

SpecCaller == InitCaller /\ [][NextCaller]_vars

----------------------------------------------------------------------------
(* SpecEscape: the element template tag applied to one string value, as     *)
(* TodoItemView.createElement applies it to todoItem.title.                 *)

InitEscape ==
    /\ InitApp
    /\ escIn \in {StringValue(s) : s \in StringsUpTo(MaxLen)}
    /\ escOut = NoOutput

BuildItem(completed) ==
    /\ escOut = NoOutput
    /\ escOut' = IF completed
                 THEN element(<<LiCheckedOpen, LiCheckedClose>>, <<escIn>>)
                 ELSE element(<<LiOpen, LiClose>>, <<escIn>>)
    /\ UNCHANGED <<escIn, appVars>>

NextEscape == \E completed \in BOOLEAN : BuildItem(completed)

SpecEscape == InitEscape /\ [][NextEscape]_vars

----------------------------------------------------------------------------
(* SpecEmitter: an EventEmitter driven through its three methods. The       *)
(* listeners that call back into the emitter do so for the type "change"    *)
(* and are registered under it; the others are registered under either      *)
(* type. At most MaxListeners listeners are registered under a type from     *)
(* outside an emit. A call of emit that does not return ends the run.       *)
(***************************************************************************)
Types == {"change", "other"}

AddEventListener(type, listener) ==
    /\ ~hung
    /\ type \in DOMAIN listeners => Len(listeners[type]) < MaxListeners
    /\ Commit(addEventListener(World, type, listener))
    /\ lastOp' = EmitterOp("addEventListener", type, listener,
                           addEventListener(World, type, listener).listeners # listeners)
    /\ UNCHANGED escVars

RemoveEventListener(type, listener) ==
    /\ ~hung
    /\ Commit(removeEventListener(World, type, listener))
    /\ lastOp' = EmitterOp("removeEventListener", type, listener,
                           Compact(removeEventListener(World, type, listener).listeners) # listeners)
    /\ UNCHANGED escVars

Emit(type) ==
    /\ ~hung
    /\ Commit(emit(World, type))
    /\ lastOp' = EmitterOp("emit", type, "", emit(World, type).hung)
    /\ UNCHANGED escVars

NextEmitter ==
    \/ \E listener \in Listeners : AddEventListener("change", listener)
    \/ \E listener \in PlainListeners : AddEventListener("other", listener)
    \/ \E type \in Types, listener \in Listeners : RemoveEventListener(type, listener)
    \/ \E type \in Types : Emit(type)

SpecEmitter == Init /\ [][NextEmitter]_vars

----------------------------------------------------------------------------
(* What the claims speak about.                                            *)

\* the object references the TodoListModel holds, in order
Items == arrays[itemsRef]

IsRegistered(listener) ==
    /\ "change" \in DOMAIN listeners
    /\ listener \in Range(listeners["change"])

\* the App is mounted: both registrations of App.mount are in place
Mounted == IsRegistered("handleChange") /\ "handleSubmit" \in formListeners

\* an <li> shows its title struck through
Struck(li) == li.html[1] = LiCheckedOpen[1]

\* the markup an <li> carries between the static chunks of its template
TitleMarkup(html) == SubSeq(html, 2, Len(html) - 1)

Entities ==
    {<<"&", "a", "m", "p", ";">>, <<"&", "l", "t", ";">>, <<"&", "g", "t", ";">>,
     <<"&", "q", "u", "o", "t", ";">>, <<"&", "#", "0", "3", "9", ";">>}

EntityOf(c) ==
    CASE c = "&" -> <<"&", "a", "m", "p", ";">>
      [] c = "<" -> <<"&", "l", "t", ";">>
      [] c = ">" -> <<"&", "g", "t", ";">>
      [] c = "\"" -> <<"&", "q", "u", "o", "t", ";">>
      [] c = "'" -> <<"&", "#", "0", "3", "9", ";">>
      [] OTHER -> <<c>>

\* s has the sequence e at position i
HasAt(s, i, e) == i + Len(e) - 1 <= Len(s) /\ SubSeq(s, i, i + Len(e) - 1) = e

\* the listeners registered under a type, in the order of their Set
Registered(ls, type) == IF type \in DOMAIN ls THEN ls[type] ELSE <<>>

\* the listener that the call before op registered again under the type of
\* op, although it was registered under it already; "" if there is none
Resubscribed(op) ==
    IF op.previous.op = "addEventListener" /\ ~op.previous.handled
    THEN op.previous.listener ELSE ""

\* the listener that the call before op removed from the listeners of the
\* type of op; "" if there is none
Unsubscribed(op) ==
    IF op.previous.op = "removeEventListener" /\ op.previous.handled
    THEN op.previous.listener ELSE ""

\* how often a listener occurs among the listeners of a type
Occurrences(ls, type, listener) ==
    Cardinality({i \in DOMAIN Registered(ls, type) : Registered(ls, type)[i] = listener})

----------------------------------------------------------------------------
(* C1: whenever the App is mounted, the <li> elements in the container      *)
(* element are, in order, the items of the TodoListModel: same length, and  *)
(* at each position the same id, the escaped title and struck through       *)
(* exactly when the item is completed.                                      *)
(* The code does not keep this across unmount and mount.                   *)
C1_ViewMatchesContainer ==
    Mounted =>
        /\ Len(Rendered) = Len(Items)
        /\ \A i \in DOMAIN Rendered :
              /\ objs[Rendered[i].item].id = objs[Items[i]].id
              /\ TitleMarkup(Rendered[i].html) = escapeSpecialChars(objs[Items[i]].title)
              /\ Struck(Rendered[i]) = objs[Items[i]].completed

----------------------------------------------------------------------------
(* C4: the sequence the TodoListModel holds changes only in a step of       *)
(* addTodo, updateTodo or deleteTodo.                                       *)
(* The code does not keep this: getTodoItems returns #items itself and the  *)
(* constructor keeps the Array it is given.                                 *)
C4_OnlyOwnOperations ==
    [][arrays'[itemsRef'] # arrays[itemsRef]
        => lastOp'.op \in {"addTodo", "updateTodo", "deleteTodo"}]_vars

----------------------------------------------------------------------------
(* Claims about the TodoListModel, read on the steps of SpecModel. A step   *)
(* is recognised by lastOp', its arguments are lastOp'.id, lastOp'.title    *)
(* and lastOp'.completed, and the unprimed variables are the state the      *)
(* method was called in.                                                    *)

\* some item held before the step has the id the step names
Matches == \E i \in DOMAIN Items : objs[Items[i]].id = lastOp'.id

\* the position of todoItem in the sequence s
Pos(s, todoItem) == CHOOSE i \in DOMAIN s : s[i] = todoItem

\* how often the step invoked the subscriber
Notified == fired'["subscriber"]

(* C2: with the subscriber registered, a step invokes it once if it is      *)
(* addTodo of a non-empty title, updateTodo of an id that is held or any    *)
(* deleteTodo, and not at all if it is addTodo of an empty title or         *)
(* updateTodo of an id that is not held.                                    *)
C2_NotifyOnSuccess ==
    [][IsRegistered("subscriber") =>
        /\ lastOp'.op = "addTodo" => Notified = IF lastOp'.title # <<>> THEN 1 ELSE 0
        /\ lastOp'.op = "updateTodo" => Notified = IF Matches THEN 1 ELSE 0
        /\ lastOp'.op = "deleteTodo" => Notified = 1]_vars

\* an updateTodo has just notified the subscriber
C2_Witness ==
    /\ IsRegistered("subscriber")
    /\ lastOp.op = "updateTodo"
    /\ fired["subscriber"] = 1

(* C3: no two positions of the sequence the TodoListModel holds carry the   *)
(* same id.                                                                 *)
C3_DistinctIds ==
    \A i, j \in DOMAIN Items : i # j => objs[Items[i]].id # objs[Items[j]].id

\* an item was added after an earlier one had been deleted
C3_Witness ==
    /\ lastOp.op = "addTodo"
    /\ Len(Items) >= 2
    /\ Len(objs) \in Range(Items)
    /\ \E r \in DOMAIN objs : objs[r].title # <<>> /\ r \notin Range(Items)

(* C5: updateTodo leaves the sequence of held items as it is; deleteTodo    *)
(* leaves exactly the held items whose id is not the one named, each once,  *)
(* in the order they had, and changes no field of any item.                 *)
C5_OrderPreserved ==
    [][/\ lastOp'.op = "updateTodo" => Items' = Items
       /\ lastOp'.op = "deleteTodo" =>
            /\ Range(Items') = {r \in Range(Items) : objs[r].id # lastOp'.id}
            /\ Len(Items') = Cardinality(Range(Items'))
            /\ \A i, j \in DOMAIN Items' :
                  i < j => Pos(Items, Items'[i]) < Pos(Items, Items'[j])
            /\ objs' = objs]_vars

\* the middle one of three held items has just been deleted
C5_Witness ==
    /\ lastOp.op = "deleteTodo"
    /\ Len(objs) = 3
    /\ lastOp.id = objs[2].id
    /\ objs[2].title # <<>>
    /\ Items = <<1, 3>>

(* C6: addTodo of an item with an empty title leaves #items, the sequence   *)
(* it holds and the total count as they are, invokes no listener and        *)
(* renders nothing.                                                         *)
C6_EmptyTitleRejected ==
    [][lastOp'.op = "addTodo" /\ lastOp'.title = <<>> =>
        /\ itemsRef' = itemsRef
        /\ Items' = Items
        /\ Len(Items') = Len(Items)
        /\ fired' = NoFired
        /\ dom' = dom
        /\ countText' = countText]_vars

\* an empty title has just been offered while the subscriber was registered
\* and an item was held
C6_Witness ==
    /\ lastOp.op = "addTodo"
    /\ lastOp.title = <<>>
    /\ IsRegistered("subscriber")
    /\ Items # <<>>

(* C7: updateTodo of an id that is not held changes no item and no          *)
(* sequence and invokes no listener; updateTodo of an id that is held sets  *)
(* completed of the first held item with that id to the value given and     *)
(* changes nothing else of any item.                                        *)
C7_UpdateOnlyCompleted ==
    [][lastOp'.op = "updateTodo" =>
        IF Matches
        THEN LET first == Items[CHOOSE i \in DOMAIN Items :
                                 /\ objs[Items[i]].id = lastOp'.id
                                 /\ \A j \in 1..(i - 1) : objs[Items[j]].id # lastOp'.id]
             IN  /\ DOMAIN objs' = DOMAIN objs
                 /\ objs'[first].completed = lastOp'.completed
                 /\ objs'[first].id = objs[first].id
                 /\ objs'[first].title = objs[first].title
                 /\ \A r \in DOMAIN objs : r # first => objs'[r] = objs[r]
        ELSE /\ objs' = objs
             /\ arrays' = arrays
             /\ itemsRef' = itemsRef
             /\ fired' = NoFired]_vars

\* a held item has just been set to completed while another held item is not
C7_Witness ==
    /\ lastOp.op = "updateTodo"
    /\ lastOp.completed
    /\ \E i, j \in DOMAIN Items :
          /\ objs[Items[i]].id = lastOp.id
          /\ objs[Items[i]].completed
          /\ ~objs[Items[j]].completed

(* C8: deleteTodo of an id that is not held invokes the registered          *)
(* subscriber once and leaves the held items, their order and their number  *)
(* as they were.                                                            *)
C8_DeleteNoMatchNotifies ==
    [][lastOp'.op = "deleteTodo" /\ ~Matches =>
        /\ IsRegistered("subscriber") => Notified = 1
        /\ Items' = Items
        /\ Len(Items') = Len(Items)]_vars

\* a deleteTodo on a TodoListModel that never held an item has notified
C8_Witness ==
    /\ lastOp.op = "deleteTodo"
    /\ objs = <<>>
    /\ Items = <<>>
    /\ fired["subscriber"] = 1

(* C9: no step changes the id of an item that exists, and the ids of the    *)
(* items ever constructed increase strictly in the order of construction,   *)
(* so no id is given twice, deleted or not.                                 *)
C9_IdsNeverReused ==
    [][/\ \A r \in DOMAIN objs : r \in DOMAIN objs' /\ objs'[r].id = objs[r].id
       /\ \A q, r \in DOMAIN objs' : q < r => objs'[q].id < objs'[r].id]_vars

\* an item has just been added after an earlier one was deleted and another
\* one updated
C9_Witness ==
    /\ lastOp.op = "addTodo"
    /\ Len(objs) = 3
    /\ Items = <<2, 3>>
    /\ objs[1].title # <<>>
    /\ objs[2].completed

----------------------------------------------------------------------------
(* C10: the markup element builds around a string value holds, between the  *)
(* static chunks, the value with each character replaced by its entity      *)
(* (the five special characters) or itself (any other), so that every "&"   *)
(* of the markup starts an entity and none of < > " ' occurs in it.         *)
C10_ValueEscaped ==
    escOut # NoOutput =>
        LET markup == TitleMarkup(escOut)
        IN  /\ escOut[1] \in {LiOpen[1], LiCheckedOpen[1]}
            /\ escOut[Len(escOut)] \in {LiClose[1], LiCheckedClose[1]}
            /\ markup = Flatten([i \in DOMAIN escIn.str |-> EntityOf(escIn.str[i])])
            /\ \A i \in DOMAIN markup :
                  /\ markup[i] \notin {"<", ">", "\"", "'"}
                  /\ markup[i] = "&" => \E e \in Entities : HasAt(markup, i, e)

\* a value with a special character after an ampersand has been built
C10_Witness ==
    /\ escOut # NoOutput
    /\ escIn.str = <<"&", "<", "a">>

----------------------------------------------------------------------------
(* Claims about the EventEmitter, read on the steps of SpecEmitter. A step  *)
(* is recognised by lastOp', its arguments are lastOp'.type and             *)
(* lastOp'.listener, and the unprimed variables are the state the method    *)
(* was called in.                                                           *)

(* C11: addEventListener leaves the listener registered once under the     *)
(* type, and changes nothing if it was registered under it already; an     *)
(* emit that follows a repeated addEventListener of a listener, with only   *)
(* listeners registered under the type that leave the registrations alone,  *)
(* invokes that listener once; a removeEventListener that follows a         *)
(* repeated addEventListener of the listener leaves it not registered.      *)
C11_SubscribeIdempotent ==
    [][/\ lastOp'.op = "addEventListener" =>
            /\ Occurrences(listeners', lastOp'.type, lastOp'.listener) = 1
            /\ Occurrences(listeners, lastOp'.type, lastOp'.listener) = 1 =>
                    listeners' = listeners
       /\ ( /\ lastOp'.op = "emit"
            /\ Resubscribed(lastOp') # ""
            /\ Range(Registered(listeners, lastOp'.type)) \subseteq PlainListeners ) =>
                fired'[Resubscribed(lastOp')] = 1
       /\ ( /\ lastOp'.op = "removeEventListener"
            /\ Resubscribed(lastOp') = lastOp'.listener ) =>
                Occurrences(listeners', lastOp'.type, lastOp'.listener) = 0
      ]_vars

\* a listener was registered twice under "change" next to another one, and
\* the emit after that invoked each of them once
C11_Witness ==
    /\ lastOp.op = "emit"
    /\ lastOp.type = "change"
    /\ Resubscribed(lastOp) = "subscriber"
    /\ fired = [NoFired EXCEPT !["subscriber"] = 1, !["handleChange"] = 1]

----------------------------------------------------------------------------
(* C12: removeEventListener takes the listener out of the listeners of the  *)
(* type and leaves every other listener registered, in the same order, under *)
(* the same types; it returns; if the listener was not registered under the *)
(* type, or nothing was ever registered under the type, nothing changes. An *)
(* emit invokes no listener that is not registered under its type when it   *)
(* is called, unless a listener that registers it during the emit is.       *)
C12_UnsubscribeRemoves ==
    [][/\ lastOp'.op = "removeEventListener" =>
            /\ DOMAIN listeners' = DOMAIN listeners
            /\ \A t \in DOMAIN listeners :
                  listeners'[t] =
                      IF t = lastOp'.type
                      THEN SelectSeq(listeners[t], LAMBDA own : own # lastOp'.listener)
                      ELSE listeners[t]
            /\ ~hung'
            /\ fired' = NoFired
            /\ Occurrences(listeners, lastOp'.type, lastOp'.listener) = 0 =>
                    UNCHANGED <<todoIdx, objs, arrays, itemsRef, heldRef, listeners,
                                formListeners, inputValue, dom, countText>>
       /\ lastOp'.op = "emit" =>
            \A listener \in Listeners :
                ( /\ Occurrences(listeners, lastOp'.type, listener) = 0
                  /\ Occurrences(listeners, lastOp'.type, "adder") = 0 ) =>
                        fired'[listener] = 0
      ]_vars

\* of two listeners registered under "change" one was removed, and the emit
\* after that invoked the other one only
C12_Witness ==
    /\ lastOp.op = "emit"
    /\ lastOp.type = "change"
    /\ Unsubscribed(lastOp) = "subscriber"
    /\ fired = [NoFired EXCEPT !["handleChange"] = 1]

----------------------------------------------------------------------------
(* C13: emit returns, and has then invoked once every listener that was     *)
(* registered under its type when it was called and no other listener; for  *)
(* a type with no listener it invokes nothing.                              *)
(* The code does not keep this when a listener changes the registrations    *)
(* of the type: forEach goes on to entries appended during the emit.        *)
C13_PublishInvokesEachOnce ==
    [][lastOp'.op = "emit" =>
            /\ ~hung'
            /\ \A listener \in Listeners :
                  fired'[listener] =
                      IF Occurrences(listeners, lastOp'.type, listener) = 1 THEN 1 ELSE 0
      ]_vars

----------------------------------------------------------------------------
(* C16: every call of emit returns, whatever the listeners it invokes do to *)
(* the registrations of its type.                                          *)
(* The code does not keep this: a listener that removes itself and then     *)
(* registers itself again is appended to the Set that forEach is reading,   *)
(* and is reached again, without end.                                       *)
C16_PublishReturns == ~hung

----------------------------------------------------------------------------
(* Claims about the App, read on the steps of Spec.                         *)

(* C14: unmount leaves App.#handleChange not registered and the submit      *)
(* listener detached, and changes nothing else; called on an App that has   *)
(* no registration it changes nothing at all. While #handleChange is not    *)
(* registered, no step but mount changes the container element or the count *)
(* display and none invokes #handleChange, also not a step that changes the *)
(* items; a submit event then constructs no item, adds none and leaves the  *)
(* input as it is. mount puts both registrations back.                      *)
C14_UnmountReversesMount ==
    [][/\ lastOp'.op = "unmount" =>
            /\ ~IsRegistered("handleChange")'
            /\ "handleSubmit" \notin formListeners'
            /\ UNCHANGED <<todoIdx, objs, arrays, itemsRef, inputValue, dom, countText>>
            /\ (listeners = <<>> /\ formListeners = {}) =>
                    UNCHANGED <<listeners, formListeners>>
       /\ (~IsRegistered("handleChange") /\ lastOp'.op # "mount") =>
            /\ UNCHANGED <<dom, countText>>
            /\ fired' = NoFired
       /\ (lastOp'.op = "submit" /\ "handleSubmit" \notin formListeners) =>
            UNCHANGED <<todoIdx, objs, arrays, itemsRef, inputValue>>
       /\ lastOp'.op = "mount" => Mounted'
      ]_vars

\* after an unmount a delete button that is still in the container element
\* was clicked: the item is gone, the container element shows it as before
C14_Witness ==
    /\ lastOp.op = "deleteClick"
    /\ ~IsRegistered("handleChange")
    /\ "change" \in DOMAIN listeners
    /\ Len(Rendered) = 2
    /\ Len(Items) = 1
    /\ countText.count = 2

----------------------------------------------------------------------------
(* C15: when a step has invoked App.#handleChange, the container element   *)
(* has one child, a <ul>, whose children are one <li> per item of the       *)
(* TodoListModel, in the order of the items, each built from its item as    *)
(* TodoItemView builds it, and the count display shows the label and the    *)
(* number of items.                                                        *)
C15_RenderReplaces ==
    fired["handleChange"] >= 1 =>
        /\ Len(dom) = 1
        /\ dom[1].tag = "ul"
        /\ Len(dom[1].children) = Len(Items)
        /\ \A i \in DOMAIN Items :
              dom[1].children[i] = TodoItemViewCreateElement(World, Items[i])
        /\ countText = [label |-> CountLabel, count |-> Len(Items)]

\* a delete click has been rendered: the container element, which showed two
\* items, holds one <ul> with the one item that is left
C15_Witness ==
    /\ lastOp.op = "deleteClick"
    /\ fired["handleChange"] = 1
    /\ Len(dom) = 1
    /\ Items = <<2>>
    /\ countText.count = 1

----------------------------------------------------------------------------
(* C17: a submit event that reaches App.#handleSubmit prevents the default, *)
(* reads the input, calls #handleAdd with what it read and then clears the  *)
(* input, in this order. For a non-empty input the item is appended with    *)
(* that title, not completed, and #handleChange has run and rendered it     *)
(* before the input is cleared; for an empty input no item is added and     *)
(* nothing is rendered. The input is empty afterwards in both cases.        *)
C17_SubmitInOrder ==
    [][(lastOp'.op = "submit" /\ "handleSubmit" \in formListeners) =>
            /\ inputValue' = <<>>
            /\ objs' = Append(objs, [id |-> todoIdx, title |-> inputValue, completed |-> FALSE])
            /\ IF inputValue = <<>>
               THEN /\ log' = <<"preventDefault", "read", "handleAdd", "clear">>
                    /\ Items' = Items
                    /\ UNCHANGED <<dom, countText>>
               ELSE /\ log' = <<"preventDefault", "read", "handleAdd", "handleChange", "clear">>
                    /\ Items' = Append(Items, Len(objs'))
                    /\ Len(dom'[1].children) = Len(Items')
                    /\ dom'[1].children[Len(Items')].item = Len(objs')
                    /\ countText'.count = Len(Items')
      ]_vars

\* a typed title was submitted to a list that held an item: it was added and
\* rendered, and the input is empty
C17_Witness ==
    /\ lastOp.op = "submit"
    /\ lastOp.title = <<"<", "&">>
    /\ log = <<"preventDefault", "read", "handleAdd", "handleChange", "clear">>
    /\ inputValue = <<>>
    /\ Len(Items) = 2

----------------------------------------------------------------------------
(* C18: in the mounted App, a change event on a rendered checkbox flips    *)
(* completed of the item of the TodoListModel that has the id of the <li>,  *)
(* and changes nothing else; a click on a rendered delete button removes    *)
(* the item of the TodoListModel that has the id of the <li>, and changes   *)
(* no other item.                                                          *)
(* The code does not keep this: after unmount and mount the container       *)
(* element can hold an <li> of an item that the TodoListModel no longer     *)
(* holds; its checkbox and its button find no item.                         *)
C18_ToggleAndDeleteHitTheItem ==
    [][/\ (Mounted /\ lastOp'.op = "toggle") =>
            \E i \in DOMAIN Items :
                /\ objs[Items[i]].id = lastOp'.id
                /\ lastOp'.completed = ~objs[Items[i]].completed
                /\ objs' = [objs EXCEPT ![Items[i]].completed = ~@]
                /\ Items' = Items
       /\ (Mounted /\ lastOp'.op = "deleteClick") =>
            \E i \in DOMAIN Items :
                /\ objs[Items[i]].id = lastOp'.id
                /\ Items' = SubSeq(Items, 1, i - 1) \o SubSeq(Items, i + 1, Len(Items))
                /\ objs' = objs
      ]_vars

----------------------------------------------------------------------------
(* C19: mount leaves App.#handleChange registered once for "change" and     *)
(* #handleSubmit attached once to the form, and changes nothing when the    *)
(* App is mounted already; no step invokes #handleChange more than once,    *)
(* and in the mounted App a delete click and a submit of a non-empty input  *)
(* invoke it once; unmount leaves no registration of either.               *)
C19_MountIdempotent ==
    [][/\ lastOp'.op = "mount" =>
            /\ Occurrences(listeners', "change", "handleChange") = 1
            /\ formListeners' = {"handleSubmit"}
            /\ Mounted => UNCHANGED <<todoIdx, objs, arrays, itemsRef, listeners,
                                      formListeners, inputValue, dom, countText>>
       /\ fired'["handleChange"] <= 1
       /\ ( /\ Mounted
            /\ \/ lastOp'.op = "deleteClick"
               \/ lastOp'.op = "submit" /\ inputValue # <<>> ) =>
                fired'["handleChange"] = 1
       /\ lastOp'.op = "unmount" =>
            /\ Occurrences(listeners', "change", "handleChange") = 0
            /\ formListeners' = {}
      ]_vars

\* mount was called on the mounted App, which holds an item
C19_Witness ==
    /\ lastOp.op = "mount"
    /\ ~lastOp.handled
    /\ Registered(listeners, "change") = <<"handleChange">>
    /\ formListeners = {"handleSubmit"}
    /\ Len(Items) = 1

----------------------------------------------------------------------------
(* C20: the id of a TodoItemModel is the number of TodoItemModel objects    *)
(* constructed before it; an add constructs one object and advances the     *)
(* counter by one, whether the TodoListModel then takes the item or rejects *)
(* it for its empty title; the ids of the items the TodoListModel holds     *)
(* increase strictly along the sequence.                                   *)
C20_IdsCountConstructions ==
    [][/\ lastOp'.op = "addTodo" =>
            /\ todoIdx' = todoIdx + 1
            /\ objs' = Append(objs, [id |-> Len(objs), title |-> lastOp'.title,
                                     completed |-> FALSE])
            /\ Items' = IF lastOp'.title = <<>> THEN Items ELSE Append(Items, Len(objs'))
       /\ lastOp'.op # "addTodo" => todoIdx' = todoIdx /\ Len(objs') = Len(objs)
       /\ \A i, j \in DOMAIN Items' :
            i < j => objs'[Items'[i]].id < objs'[Items'[j]].id
      ]_vars

\* the second of three adds had an empty title: the TodoListModel holds the
\* ids 0 and 2
C20_Witness ==
    /\ lastOp.op = "addTodo"
    /\ Len(Items) = 2
    /\ objs[Items[1]].id = 0
    /\ objs[Items[2]].id = 2
    /\ objs[2].title = <<>>
    /\ todoIdx = 3

----------------------------------------------------------------------------
(* C21: a call of updateTodo or deleteTodo that directly follows the same   *)
(* call with the same arguments leaves the items of the TodoListModel, in   *)
(* their order and with their fields, as the first call left them, and      *)
(* invokes the subscriber as often as the first call did: once if the first *)
(* call did (updateTodo of an id that is held, any deleteTodo), else not.   *)
C21_RepeatedCallChangesNothing ==
    [][(lastOp'.op \in {"updateTodo", "deleteTodo"} /\ lastOp'.previous.op = lastOp'.op) =>
            /\ Items' = Items
            /\ objs' = objs
            /\ todoIdx' = todoIdx
            /\ listeners' = listeners
            /\ fired' = fired
            /\ IsRegistered("subscriber") =>
                    fired'["subscriber"] =
                        IF lastOp'.op = "deleteTodo" \/ Find(World, lastOp'.id) # 0
                        THEN 1 ELSE 0
      ]_vars

\* of two items the first was set completed twice in a row, with the
\* subscriber registered: it is completed, and the second call notified
C21_Witness ==
    /\ lastOp.op = "updateTodo"
    /\ lastOp.previous.op = "updateTodo"
    /\ lastOp.id = 0
    /\ lastOp.completed
    /\ Len(Items) = 2
    /\ objs[Items[1]].completed
    /\ ~objs[Items[2]].completed
    /\ fired["subscriber"] = 1

====
